---- MODULE Spec2Model ----
(***************************************************************************)
(* Model of the image scanner of CyberSandwich/codegen                     *)
(* (src/unnamed/part_008, lines 1-255: the current scanner utilities).     *)
(*                                                                         *)
(* scanImageFileMultiple(file) materializes the file into ImageData, runs  *)
(* the QR channel (jsQR on the full frame, then on 2x2 and 3x3 grid tiles  *)
(* that overlap by half), then the barcode channel (Quagga in multi-result *)
(* mode, then single-result fallback configurations), merging everything   *)
(* into one list.  jsQR and Quagga are external libraries: their outputs   *)
(* are the inputs of the model.                                            *)
(*                                                                         *)
(* Per-symbol errors are numbers in hundredths (25 stands for 0.25).  The  *)
(* values used are 0, 0.25, 0.5 and 0.9: a mean of them is exactly 0.25    *)
(* only when every summand is dyadic, so the floating-point comparison of  *)
(* the code and the exact comparison of the model agree.                   *)
(* ScanResult.timestamp (Date.now()) is left out: no operation reads it.   *)
(*                                                                         *)
(* Specifications: Spec (one scan, the primitives answer anything),        *)
(* SpecImg (known pictures, scanned twice), SpecScenario (the 300 x 300    *)
(* picture with one QR code), SpecPair (two scans under way at the same    *)
(* time), SpecFilter (the confidence filter alone), SpecSingle (one call   *)
(* of scanImageFile of src/src/utils/scanner.ts), SpecDrop (App.handleDrop *)
(* of src/src/App.tsx with two files), SpecHook (the useScanner hook of    *)
(* src/src/hooks/useScanner.ts with two pictures).                         *)
(***************************************************************************)
EXTENDS Integers, Sequences, FiniteSets, TLC

\* ------------------------------------------------------------- bounds
MaxDim == 6        \* image width and height range over 1..MaxDim
MaxSym == 2        \* decodedCodes entries of a candidate given to the filter
MaxCands == 2      \* candidates in one multi-result Quagga answer
MinCode == 2       \* the smallest region, in pixels per side, jsQR can decode
MaxRepeat == 2     \* repeated tile attempts followed when the window does not advance

\* ------------------------------------------------------------- values
ScanIds == {1, 2}
Null == "null"             \* JavaScript null / undefined where a string is expected
Throw == "throw"           \* the primitive raised an exception
Payloads == {"A", "B"}     \* payloads jsQR may decode
BarCodes == {"", "A", "C"} \* codeResult.code values ("" : missing or empty code)
Undefined == -1            \* a decodedCodes entry without an error field
ErrVals == {0, 25, 50, 90} \* per-symbol errors, in hundredths

RECURSIVE SumSeq(_)
SumSeq(q) == IF q = <<>> THEN 0 ELSE Head(q) + SumSeq(Tail(q))

Range(q) == {q[i] : i \in 1..Len(q)}

SeqsUpTo(S, n) == UNION {[1..k -> S] : k \in 0..n}

\* ------------------------------------------------------------- confidence filter
ERROR_THRESHOLD == 25

\* a raw Quagga candidate: codeResult.code and codeResult.decodedCodes
\* (hasDecoded = FALSE: the decodedCodes field is absent)
Candidate(code, hasDecoded, decodedCodes) ==
    [code |-> code, hasDecoded |-> hasDecoded, decodedCodes |-> decodedCodes]

\* decodedCodes?.filter(c => c.error !== undefined).map(c => c.error || 0) || []
\* (c.error || 0 leaves every number of ErrVals as it is)
ErrorsOf(result) ==
    IF result.hasDecoded
    THEN SelectSeq(result.decodedCodes, LAMBDA e : e # Undefined)
    ELSE <<>>

\* the mutant accepts nothing at the threshold (>= for >)
processQuaggaResultStrict(result) ==
    LET errors == ErrorsOf(result) IN
    IF result.code = "" THEN Null
    ELSE IF Len(errors) > 0 /\ SumSeq(errors) >= ERROR_THRESHOLD * Len(errors) THEN Null
    ELSE result.code

\* processQuaggaResult: the code string, or Null when the candidate is rejected.
\* avgError > ERROR_THRESHOLD, with avgError = sum / length
processQuaggaResult(result) ==
    LET errors == ErrorsOf(result) IN
    IF result.code = "" THEN Null
    ELSE IF Len(errors) > 0 /\ SumSeq(errors) > ERROR_THRESHOLD * Len(errors) THEN Null
    ELSE result.code

\* tryQuaggaDecode's callback of src/src/utils/scanner.ts: the same filter, inlined
tryQuaggaDecode(result) ==
    IF result.code # ""
    THEN LET errors == ErrorsOf(result) IN
         IF Len(errors) > 0 /\ SumSeq(errors) > 25 * Len(errors)
         THEN Null
         ELSE result.code
    ELSE Null

\* tryQuaggaDecodeMultiple of the earlier scanner (part_008 lines 438-496), one
\* element of an array answer: if (avgError > 0.25) continue
tryQuaggaDecodeMultipleItem(r) ==
    IF r.code # ""
    THEN LET errors == ErrorsOf(r) IN
         IF Len(errors) > 0 /\ SumSeq(errors) > 25 * Len(errors)
         THEN Null
         ELSE r.code
    ELSE Null

\* tryQuaggaDecodeMultiple of the earlier scanner, a single result object:
\* errors.length === 0 || avgError <= 0.25
tryQuaggaDecodeMultipleObject(result) ==
    IF result.code # ""
    THEN LET errors == ErrorsOf(result) IN
         IF Len(errors) = 0 \/ SumSeq(errors) <= 25 * Len(errors)
         THEN result.code
         ELSE Null
    ELSE Null

\* ------------------------------------------------------------- Quagga answers
\* what Quagga.decodeSingle hands to the callback: an array of candidates, one
\* candidate object, or undefined; or the call throws
RawArray(items) == [shape |-> "array", items |-> items]
RawObject(c) == [shape |-> "object", items |-> <<c>>]
RawUndefined == [shape |-> "undefined", items |-> <<>>]
RawThrow == [shape |-> "throw", items |-> <<>>]

RECURSIVE AcceptedCodes(_)
AcceptedCodes(items) ==
    IF items = <<>> THEN <<>>
    ELSE LET code == processQuaggaResult(Head(items)) IN
         (IF code # Null THEN <<code>> ELSE <<>>) \o AcceptedCodes(Tail(items))

\* the mutant lets a single result object through unfiltered
quaggaDecodeObjectUnfiltered(result) ==
    IF result.shape = "array" THEN AcceptedCodes(result.items)
    ELSE IF result.shape = "object" /\ result.items[1].code # ""
         THEN <<result.items[1].code>>
    ELSE <<>>

\* the callback of quaggaDecode: the codes it resolves with
quaggaDecode(result) ==
    IF result.shape = "array" THEN AcceptedCodes(result.items)
    ELSE IF result.shape = "object" THEN AcceptedCodes(result.items)
    ELSE <<>>

\* the candidates the barcode primitive may report during a scan
ScanErrLists ==
    { <<FALSE, <<>>>>, <<TRUE, <<Undefined>>>>, <<TRUE, <<25>>>>,
      <<TRUE, <<90>>>>, <<TRUE, <<0, 50>>>> }
ScanCands == {Candidate(c, e[1], e[2]) : c \in BarCodes, e \in ScanErrLists}

\* ------------------------------------------------------------- state
VARIABLES
    file,      \* file[s]: the File handed to scan s and what the primitives see in it
    st,        \* st[s]: the locals of scan s (scanImageFileMultiple and its callees)
    hist,      \* hist[s]: what the primitives were asked and answered during scan s
    cand,      \* the candidate given to the confidence filter
    verdict,   \* what the filters answered for cand
    drop,      \* the call of App.handleDrop under way: its locals and the toast
    hook       \* the state of useScanner: result, isScanning, error

vars == <<file, st, hist, cand, verdict, drop, hook>>

\* ScanResult { data, type }
ScanResult(data, type) == [data |-> data, type |-> type]

NoImage == [width |-> 0, height |-> 0]

\* a scan that has not been called
IdleScan ==
    [ pc |-> "idle",
      results |-> <<>>, seenData |-> {},         \* scanImageFileMultiple
      imageData |-> NoImage,
      qrResults |-> <<>>, qrSeenData |-> {},     \* scanMultipleQRCodes
      gridIdx |-> 0, x |-> 0, y |-> 0,
      bcResults |-> <<>>, bcSeenData |-> {},     \* scanMultipleBarcodes
      cfgIdx |-> 0,
      outcome |-> "none", returned |-> <<>> ]    \* the promise of the call

NoHist ==
    [ qrFound |-> {},            \* the payloads jsQR has returned
      threw |-> "none",          \* where the exception of this scan was raised
      repeated |-> FALSE,        \* a primitive reported a payload a second time
      bcLog |-> <<>>,            \* the configurations Quagga was called with
      lastRaw |-> RawUndefined,  \* Quagga's latest answer
      accepted |-> <<>>,         \* per Quagga call: acceptable candidates (-1: it threw)
      multiOffered |-> 0,        \* candidates in the answer to the multi-result call
      order |-> <<>>,            \* the entries in the order the primitives first gave them
      qrAttempts |-> 0,          \* calls of jsQR
      tiles |-> {},              \* the tiles handed to jsQR, each with its grid size
      retried |-> 0,             \* calls of jsQR on a tile it had been handed before
      bcDone |-> FALSE,          \* scanMultipleBarcodes has returned its list
      used |-> {},               \* the intermediates the latest attempt worked on
      reused |-> FALSE,          \* an attempt worked on an intermediate of the one before
      run |-> 0,                 \* calls of scanImageFileMultiple on this file
      overlap |-> FALSE,         \* the first call began while another scan was under way
      first |-> <<>> ]           \* the list the first call returned

\* no drop has been handled: no toast is shown
NoToast == [type |-> "none", items |-> <<>>]

NoDrop == [pc |-> "idle", i |-> 0, items |-> <<>>, toast |-> NoToast]

\* useState(null), useState(false), useState(null); a null result is the empty
\* sequence and a null error the empty string
NoHook ==
    [ result |-> <<>>, isScanning |-> FALSE, error |-> "",
      calls |-> [s \in ScanIds |-> "idle"],  \* where each call of processFile or
                                             \* handlePaste stands
      latest |-> 0,              \* the scan begun last
      overlapped |-> FALSE,      \* a scan was begun while another was under way
      resultOf |-> 0,            \* the scan that stored the result held (0: none)
      errorOf |-> 0 ]            \* the scan that stored the error held (0: none)

\* ------------------------------------------------------------- dedup
\* the mutant pushes without looking at the set
PushAlways(results, seen, item) ==
    [results |-> Append(results, item), seen |-> seen \cup {item.data}]

\* the mutant puts a new entry in front (unshift for push)
PushFront(results, seen, item) ==
    IF item.data \in seen
    THEN [results |-> results, seen |-> seen]
    ELSE [results |-> <<item>> \o results, seen |-> seen \cup {item.data}]

\* if (!seenData.has(x.data)) { seenData.add(x.data); results.push(x) }
PushIfNew(results, seen, item) ==
    IF item.data \in seen
    THEN [results |-> results, seen |-> seen]
    ELSE [results |-> Append(results, item), seen |-> seen \cup {item.data}]

RECURSIVE PushAll(_, _, _)
PushAll(results, seen, items) ==
    IF items = <<>> THEN [results |-> results, seen |-> seen]
    ELSE LET one == PushIfNew(results, seen, Head(items)) IN
         PushAll(one.results, one.seen, Tail(items))

\* addResult of scanMultipleQRCodes
AddQR(t, data) ==
    LET r == PushIfNew(t.qrResults, t.qrSeenData, ScanResult(data, "qr")) IN
    [t EXCEPT !.qrResults = r.results, !.qrSeenData = r.seen]

RECURSIVE ToBarcodes(_)
ToBarcodes(codes) ==
    IF codes = <<>> THEN <<>>
    ELSE <<ScanResult(Head(codes), "barcode")>> \o ToBarcodes(Tail(codes))

\* codes.forEach(addResult) of scanMultipleBarcodes
AddBarcodes(t, codes) ==
    LET r == PushAll(t.bcResults, t.bcSeenData, ToBarcodes(codes)) IN
    [t EXCEPT !.bcResults = r.results, !.bcSeenData = r.seen]

\* the mutant keeps one seenData for all calls (the set hoisted to module level)
MergeShared(t, items) ==
    LET r == PushAll(t.results, UNION {st[o].seenData : o \in ScanIds}, items) IN
    [t EXCEPT !.results = r.results, !.seenData = r.seen]

\* the two merge loops of scanImageFileMultiple
MergeInto(t, items) ==
    LET r == PushAll(t.results, t.seenData, items) IN
    [t EXCEPT !.results = r.results, !.seenData = r.seen]

\* return results (the promise resolves with the list)
Return(t) == [t EXCEPT !.pc = "done", !.outcome = "resolved", !.returned = t.results]

\* catch (error) { console.error(...) } and then return results
Catch(t) == Return(t)

\* ------------------------------------------------------------- files
Faults == {"none", "read", "load", "ctx", "qrCtx", "srcCtx", "url"}

\* a file whose primitives may answer anything ("free")
FreeFile(fault, w, h) ==
    [fault |-> fault, w |-> w, h |-> h, prim |-> "free", codes |-> {},
     ambiguous |-> "none", bars |-> <<>>]

NoFile == FreeFile("none", 1, 1)

Region(x, y, w, h) == [x |-> x, y |-> y, w |-> w, h |-> h]

\* a file with a known picture ("geom"): codes are the QR codes drawn in it, each a
\* payload and the rectangle it occupies; bars are Quagga's answers to the four
\* configurations, the multi-result one first.  The primitives are then functions
\* of their input.
GeomFile(fault, w, h, codes, ambiguous, bars) ==
    [fault |-> fault, w |-> w, h |-> h, prim |-> "geom", codes |-> codes,
     ambiguous |-> ambiguous, bars |-> bars]

PlacedCode(data, x, y, w, h) == [data |-> data, x |-> x, y |-> y, w |-> w, h |-> h]

\* rectangle c lies inside rectangle r
Inside(c, r) ==
    /\ r.x <= c.x /\ c.x + c.w <= r.x + r.w
    /\ r.y <= c.y /\ c.y + c.h <= r.y + r.h

\* the QR primitive on a known picture: the payload of the code the region contains
\* when it contains exactly one; with several codes in view it locates the topmost,
\* leftmost one (ambiguous = "first") or none of them (ambiguous = "none")
IdealQR(f, r) ==
    LET inside == {c \in f.codes : Inside(c, r)} IN
    IF inside = {} THEN Null
    ELSE IF Cardinality(inside) > 1 /\ f.ambiguous = "none" THEN Null
    ELSE (CHOOSE c \in inside :
            \A d \in inside : c.y < d.y \/ (c.y = d.y /\ c.x <= d.x)).data

\* ------------------------------------------------------------- primitives
\* jsQR(data, width, height) on region r of the image of file f: a payload, Null
\* (nothing located) or Throw
\* (a region narrower or lower than MinCode pixels cannot show a QR code)
jsQR(f, r) ==
    IF f.prim = "geom" THEN {IdealQR(f, r)}
    ELSE IF r.w < MinCode \/ r.h < MinCode THEN {Null, Throw}
    ELSE Payloads \cup {Null, Throw}

\* Quagga.decodeSingle on the data URL of f: multiple = TRUE may answer an array of
\* candidates, one candidate or undefined; multiple = FALSE one candidate or undefined
Quagga(f, cfgIdx, multiple) ==
    IF f.prim = "free"
    THEN {RawObject(c) : c \in ScanCands} \cup {RawUndefined, RawThrow}
         \cup (IF multiple
               THEN {RawArray(q) : q \in SeqsUpTo(ScanCands, MaxCands)}
               ELSE {})
    ELSE {f.bars[cfgIdx + 1]}

\* ------------------------------------------------------------- tiling
GridSizes == <<2, 3>>

\* the fallback configurations of scanMultipleBarcodes
Configs ==
    << [patchSize |-> "x-large", halfSample |-> FALSE, multiple |-> FALSE],
       [patchSize |-> "large", halfSample |-> FALSE, multiple |-> FALSE],
       [patchSize |-> "medium", halfSample |-> TRUE, multiple |-> FALSE] >>

MultiConfig == [patchSize |-> "large", halfSample |-> FALSE, multiple |-> TRUE]

gridSize(t) == GridSizes[t.gridIdx]
sectionW(t) == t.imageData.width \div gridSize(t)
sectionH(t) == t.imageData.height \div gridSize(t)
stepX(t) == sectionW(t) \div 2      \* sectionW >> 1
stepY(t) == sectionH(t) \div 2

\* the mutant returns after the QR channel when it found a code, as scanImageFile does
QRReturnSkipBarcodes(t) ==
    IF t.qrResults # <<>> THEN Return(MergeInto(t, t.qrResults))
    ELSE [MergeInto(t, t.qrResults) EXCEPT !.pc = "dataUrl"]

\* scanMultipleQRCodes returns; scanImageFileMultiple merges its list and calls
\* scanMultipleBarcodes, which awaits fileToDataUrl
QRReturn(t) == [MergeInto(t, t.qrResults) EXCEPT !.pc = "dataUrl"]

\* the mutant tests the window offset against the image size, not the last
\* offset at which a whole tile fits
NextTilePastEdge(t) ==
    LET x1 == t.x + stepX(t)
        y1 == t.y + stepY(t)
    IN  IF x1 <= t.imageData.width - 1 THEN [t EXCEPT !.x = x1]
        ELSE IF y1 <= t.imageData.height - 1 THEN [t EXCEPT !.x = 0, !.y = y1]
        ELSE IF t.gridIdx < Len(GridSizes)
             THEN [t EXCEPT !.gridIdx = @ + 1, !.x = 0, !.y = 0]
             ELSE QRReturn(t)

\* the increments and tests of the three nested for loops after one tile
NextTile(t) ==
    LET x1 == t.x + stepX(t)
        y1 == t.y + stepY(t)
    IN  IF x1 <= t.imageData.width - sectionW(t) THEN [t EXCEPT !.x = x1]
        ELSE IF y1 <= t.imageData.height - sectionH(t) THEN [t EXCEPT !.x = 0, !.y = y1]
        ELSE IF t.gridIdx < Len(GridSizes)
             THEN [t EXCEPT !.gridIdx = @ + 1, !.x = 0, !.y = 0]
             ELSE QRReturn(t)

\* the mutant lets scanImageFileMultiple return the list of the barcode channel alone
BarcodeReturnOnly(t) == Return([t EXCEPT !.results = t.bcResults])

\* scanMultipleBarcodes returns; scanImageFileMultiple merges its list and returns
BarcodeReturn(t) == Return(MergeInto(t, t.bcResults))

\* ------------------------------------------------------------- intermediates
\* a canvas, pixel buffer or data URL, with the attempt of the scan that created it
\* (attempts are counted from 1; 0: created outside every attempt)
Intermediate(kind, by) == [kind |-> kind, by |-> by]

\* what tile attempt n works on: canvas and srcCanvas are created once, before the
\* grid loops; getImageData gives a new ImageData for each tile
TileUses(n) ==
    {Intermediate("canvas", 0), Intermediate("srcCanvas", 0),
     Intermediate("sectionData", n)}

\* what barcode attempt n works on: the one dataUrl that scanMultipleBarcodes read
\* before its first quaggaDecode call
QuaggaUses(n) == {Intermediate("dataUrl", 0)}

\* ------------------------------------------------------------- observations
\* the per-symbol errors a candidate reports
Reported(c) ==
    IF c.hasDecoded THEN SelectSeq(c.decodedCodes, LAMBDA e : e \in ErrVals) ELSE <<>>

\* a candidate with a code string whose errors, if it reports any, have a mean of
\* at most 0.25 (sum / n <= 25/100)
PassesFilter(c) ==
    /\ c.code # ""
    /\ Reported(c) = <<>> \/ 4 * SumSeq(Reported(c)) <= 100 * Len(Reported(c))

\* jsQR answered out in the attempt named by where ("full" or "tile")
SawQR(h, out, where) ==
    [h EXCEPT !.qrFound = IF out \in {Null, Throw} THEN @ ELSE @ \cup {out},
              !.repeated = @ \/ out \in h.qrFound,
              !.threw = IF out = Throw THEN where ELSE @,
              !.order = IF out \in {Null, Throw} \cup h.qrFound THEN @
                        ELSE Append(@, [data |-> out, type |-> "qr"]),
              !.qrAttempts = @ + 1,
              !.used = IF where = "tile" THEN TileUses(h.qrAttempts + 1) ELSE {},
              !.reused = @ \/ (where = "tile" /\ TileUses(h.qrAttempts + 1) \cap h.used # {})]

\* jsQR was handed tile r, cut at the window position of t, and the scan went on
\* with the locals t1
SawTile(h, t, r, t1) ==
    [h EXCEPT !.tiles = @ \cup {[g |-> GridSizes[t.gridIdx], r |-> r]},
              !.retried = IF [g |-> GridSizes[t.gridIdx], r |-> r] \in h.tiles
                          THEN @ + 1 ELSE @]

\* Quagga was called with config by the scan whose locals are t, and answered raw
SawQuagga(h, t, config, raw) ==
    LET codes == [i \in 1..Len(raw.items) |-> raw.items[i].code]
        good == SelectSeq(raw.items, PassesFilter)
        new == {i \in 1..Len(good) :
                  /\ \A j \in 1..(i - 1) : good[j].code # good[i].code
                  /\ \A e \in Range(h.order) :
                        ~(e.type = "barcode" /\ e.data = good[i].code)}
        firsts == SelectSeq([i \in 1..Len(good) |-> IF i \in new THEN good[i].code ELSE ""],
                            LAMBDA c : c # "")
    IN
    [h EXCEPT !.bcLog = Append(@, config),
              !.lastRaw = raw,
              !.repeated = @ \/ \E i, j \in 1..Len(codes) : i < j /\ codes[i] = codes[j],
              !.threw = IF raw = RawThrow THEN "quagga" ELSE @,
              !.accepted = Append(@, IF raw = RawThrow THEN -1 ELSE Len(good)),
              !.multiOffered = IF config.multiple THEN Len(raw.items) ELSE @,
              !.order = @ \o [i \in 1..Len(firsts) |-> [data |-> firsts[i], type |-> "barcode"]],
              !.used = QuaggaUses(h.qrAttempts + Len(h.bcLog) + 1),
              !.reused = @ \/ QuaggaUses(h.qrAttempts + Len(h.bcLog) + 1) \cap h.used # {}]

\* ------------------------------------------------------------- actions of one scan
\* the mutant keeps seenData across calls (a set hoisted to module level)
StaleCall(t) == [IdleScan EXCEPT !.pc = "materialize", !.seenData = t.seenData]

\* the locals of a new call of scanImageFileMultiple: results = [], seenData = new Set()
FreshCall(t) == [IdleScan EXCEPT !.pc = "materialize"]

\* scanImageFileMultiple(file) is called: fresh results and seenData
Start(s) ==
    /\ st[s].pc = "idle"
    /\ hist[s].run = 0
    /\ st' = [st EXCEPT ![s] = FreshCall(@)]
    /\ hist' = [hist EXCEPT ![s].run = 1,
                            ![s].overlap = \E o \in ScanIds \ {s} :
                                              st[o].pc \notin {"idle", "done"}]
    /\ UNCHANGED <<file, cand, verdict, drop, hook>>

\* await fileToImageData(file): the reader, the image or the canvas context may fail,
\* and the rejection lands in the catch of scanImageFileMultiple
FileToImageData(s) ==
    /\ st[s].pc = "materialize"
    /\ st' = [st EXCEPT ![s] =
                IF file[s].fault \in {"read", "load", "ctx"}
                THEN Catch(@)
                ELSE [@ EXCEPT !.pc = "qrFull",
                               !.imageData = [width |-> file[s].w, height |-> file[s].h]]]
    /\ UNCHANGED <<file, hist, cand, verdict, drop, hook>>

\* scanMultipleQRCodes up to the grid loops: jsQR on the full image, then the two
\* canvases (a null context returns what was found)
QRFullFrame(s) ==
    /\ st[s].pc = "qrFull"
    /\ \E out \in jsQR(file[s], Region(0, 0, st[s].imageData.width, st[s].imageData.height)) :
         LET t == st[s]
             t1 == IF out \in {Null, Throw} THEN t ELSE AddQR(t, out)
         IN /\ st' = [st EXCEPT ![s] =
                        IF out = Throw THEN Catch(t)
                        ELSE IF file[s].fault \in {"qrCtx", "srcCtx"} THEN QRReturn(t1)
                        ELSE [t1 EXCEPT !.pc = "qrTile", !.gridIdx = 1, !.x = 0, !.y = 0]]
            /\ hist' = [hist EXCEPT ![s] = SawQR(@, out, "full")]
    /\ UNCHANGED <<file, cand, verdict, drop, hook>>

\* one pass of the inner loop body: draw the tile, getImageData (IndexSizeError on an
\* empty tile), jsQR on the tile, addResult, then the loop increments
\* (a window that does not advance is followed for MaxRepeat repeated attempts)
QRTile(s) ==
    /\ st[s].pc = "qrTile"
    /\ hist[s].retried < MaxRepeat
    /\ LET t == st[s] IN
       IF sectionW(t) = 0 \/ sectionH(t) = 0
       THEN /\ st' = [st EXCEPT ![s] = Catch(t)]
            /\ hist' = [hist EXCEPT ![s].threw = "getImageData"]
       ELSE LET r == Region(t.x, t.y, sectionW(t), sectionH(t)) IN
            \E out \in jsQR(file[s], r) :
              LET t1 == IF out = Throw THEN Catch(t)
                        ELSE IF out = Null THEN NextTile(t)
                        ELSE NextTile(AddQR(t, out))
              IN /\ st' = [st EXCEPT ![s] = t1]
                 /\ hist' = [hist EXCEPT ![s] = SawTile(SawQR(@, out, "tile"), t, r, t1)]
    /\ UNCHANGED <<file, cand, verdict, drop, hook>>

\* await fileToDataUrl(file): null when the reader fails, and then no barcode
FileToDataUrl(s) ==
    /\ st[s].pc = "dataUrl"
    /\ st' = [st EXCEPT ![s] =
                IF file[s].fault = "url" THEN BarcodeReturn(@)
                ELSE [@ EXCEPT !.pc = "bcMulti"]]
    /\ hist' = [hist EXCEPT ![s].bcDone = (file[s].fault = "url")]
    /\ UNCHANGED <<file, cand, verdict, drop, hook>>

\* await quaggaDecode(dataUrl, {multiple: true, patchSize: 'large', halfSample: false})
\* and multiResults.forEach(addResult)
QuaggaMulti(s) ==
    /\ st[s].pc = "bcMulti"
    /\ \E raw \in Quagga(file[s], 0, TRUE) :
         LET t == st[s]
             t1 == AddBarcodes(t, quaggaDecode(raw))
         IN /\ st' = [st EXCEPT ![s] =
                        IF raw = RawThrow THEN Catch(t)
                        ELSE IF Len(t1.bcResults) = 0
                             THEN [t1 EXCEPT !.pc = "bcSingle", !.cfgIdx = 1]
                             ELSE BarcodeReturn(t1)]
            /\ hist' = [hist EXCEPT ![s] =
                          [SawQuagga(@, t, MultiConfig, raw) EXCEPT
                              !.bcDone = (raw # RawThrow /\ Len(t1.bcResults) > 0)]]
    /\ UNCHANGED <<file, cand, verdict, drop, hook>>

\* one pass of the loop over configs: await quaggaDecode(dataUrl, {...config,
\* multiple: false}); a non-empty answer is added and ends the loop
QuaggaSingle(s) ==
    /\ st[s].pc = "bcSingle"
    /\ \E raw \in Quagga(file[s], st[s].cfgIdx, FALSE) :
         LET t == st[s]
             singleResults == quaggaDecode(raw)
         IN /\ st' = [st EXCEPT ![s] =
                        IF raw = RawThrow THEN Catch(t)
                        ELSE IF Len(singleResults) > 0
                             THEN BarcodeReturn(AddBarcodes(t, singleResults))
                             ELSE IF t.cfgIdx < Len(Configs)
                                  THEN [t EXCEPT !.cfgIdx = @ + 1]
                                  ELSE BarcodeReturn(t)]
            /\ hist' = [hist EXCEPT ![s] =
                          [SawQuagga(@, t, Configs[t.cfgIdx], raw) EXCEPT
                              !.bcDone = /\ raw # RawThrow
                                         /\ \/ Len(singleResults) > 0
                                            \/ t.cfgIdx = Len(Configs)]]
    /\ UNCHANGED <<file, cand, verdict, drop, hook>>

\* scanImageFileMultiple(file) is called again on the same file once the first call
\* has returned; the list of the first call is kept for comparison
Rescan(s) ==
    /\ st[s].pc = "done"
    /\ hist[s].run = 1
    /\ st' = [st EXCEPT ![s] = FreshCall(@)]
    /\ hist' = [hist EXCEPT ![s] = [NoHist EXCEPT !.run = 2, !.first = st[s].returned,
                                                  !.overlap = hist[s].overlap]]
    /\ UNCHANGED <<file, cand, verdict, drop, hook>>

Done(s) == st[s].pc = "done"

\* ------------------------------------------------------------- one scan of one file
NoCand == Candidate("", FALSE, <<>>)

Init ==
    /\ \E fault \in Faults, w \in 1..MaxDim, h \in 1..MaxDim :
         file = [s \in ScanIds |-> IF s = 1 THEN FreeFile(fault, w, h) ELSE NoFile]
    /\ st = [s \in ScanIds |-> IdleScan]
    /\ hist = [s \in ScanIds |-> NoHist]
    /\ cand = NoCand
    /\ verdict = <<>>
    /\ drop = NoDrop
    /\ hook = NoHook

\* every step scan s can take
ScanStep(s) ==
    \/ Start(s)
    \/ FileToImageData(s)
    \/ QRFullFrame(s)
    \/ QRTile(s)
    \/ FileToDataUrl(s)
    \/ QuaggaMulti(s)
    \/ QuaggaSingle(s)

Next == \E s \in {1} : ScanStep(s)

Spec == Init /\ [][Next]_vars

\* ------------------------------------------------------------- known pictures
ImgDims == {1, 2, 6, 8, 10, 12}
GoodA == Candidate("A", TRUE, <<0, 25>>)
GoodC == Candidate("C", FALSE, <<>>)
BadA == Candidate("A", TRUE, <<90>>)
BadC == Candidate("C", TRUE, <<90, Undefined>>)

\* Quagga's answers for a picture: <<multi, x-large, large, medium>>
NoBars == <<RawArray(<<>>), RawUndefined, RawUndefined, RawUndefined>>
BarScenarios ==
    { NoBars,
      <<RawArray(<<GoodC, BadA, GoodC>>), RawUndefined, RawUndefined, RawUndefined>>,
      <<RawObject(GoodA), RawObject(GoodA), RawObject(GoodA), RawObject(GoodA)>>,
      <<RawArray(<<BadA>>), RawObject(BadC), RawUndefined, RawObject(GoodC)>> }

\* four codes, one in each quadrant of a w x h picture, each filling its quadrant
\* but for a margin of inset pixels on every side
Quadrants(w, h, inset) ==
    LET qw == w \div 2
        qh == h \div 2
    IN { PlacedCode("Q1", inset, inset, qw - 2 * inset, qh - 2 * inset),
         PlacedCode("Q2", w - qw + inset, inset, qw - 2 * inset, qh - 2 * inset),
         PlacedCode("Q3", inset, h - qh + inset, qw - 2 * inset, qh - 2 * inset),
         PlacedCode("Q4", w - qw + inset, h - qh + inset, qw - 2 * inset, qh - 2 * inset) }

\* the pictures of w x h pixels: blank, one code filling the frame, one small code
\* and a copy of it, four codes in the quadrants
Layouts(w, h) ==
    { {} , {PlacedCode("A", 0, 0, w, h)} }
    \cup (IF w >= 8 /\ h >= 8
          THEN { Quadrants(w, h, 0), Quadrants(w, h, 1),
                 {PlacedCode("A", 1, 1, 2, 2), PlacedCode("A", w - 2, h - 2, 2, 2)} }
          ELSE {})

InitImg ==
    /\ \E w \in ImgDims, h \in ImgDims, fault \in {"none", "load", "url"},
          ambiguous \in {"none", "first"}, bars \in BarScenarios :
         \E codes \in Layouts(w, h) :
            file = [s \in ScanIds |->
                      IF s = 1 THEN GeomFile(fault, w, h, codes, ambiguous, bars)
                      ELSE NoFile]
    /\ st = [s \in ScanIds |-> IdleScan]
    /\ hist = [s \in ScanIds |-> NoHist]
    /\ cand = NoCand
    /\ verdict = <<>>
    /\ drop = NoDrop
    /\ hook = NoHook

NextImg == \E s \in {1} : ScanStep(s) \/ Rescan(s)

SpecImg == InitImg /\ [][NextImg]_vars

\* ------------------------------------------------------------- scenario B
\* a 300 x 300 picture with one QR code, drawn at several places and sizes; Quagga
\* finds nothing in it, or only candidates with an average error of 0.9
ScenarioUrl == "https://example.com"

ScenarioPlaces ==
    { PlacedCode(ScenarioUrl, 0, 0, 300, 300), PlacedCode(ScenarioUrl, 15, 15, 270, 270),
      PlacedCode(ScenarioUrl, 50, 50, 200, 200), PlacedCode(ScenarioUrl, 10, 10, 90, 90),
      PlacedCode(ScenarioUrl, 100, 100, 100, 100), PlacedCode(ScenarioUrl, 160, 80, 120, 120),
      PlacedCode(ScenarioUrl, 200, 200, 100, 100) }

ScenarioBars ==
    { NoBars, <<RawArray(<<BadA, BadC>>), RawObject(BadC), RawUndefined, RawObject(BadA)>> }

InitScenario ==
    /\ \E code \in ScenarioPlaces, bars \in ScenarioBars :
         file = [s \in ScanIds |->
                   IF s = 1 THEN GeomFile("none", 300, 300, {code}, "none", bars)
                   ELSE NoFile]
    /\ st = [s \in ScanIds |-> IdleScan]
    /\ hist = [s \in ScanIds |-> NoHist]
    /\ cand = NoCand
    /\ verdict = <<>>
    /\ drop = NoDrop
    /\ hook = NoHook

SpecScenario == InitScenario /\ [][NextImg]_vars

\* ------------------------------------------------------------- two scans at once
\* the files handed to two calls of scanImageFileMultiple that are under way at the
\* same time
PairFiles ==
    { GeomFile("none", 6, 6, {PlacedCode("A", 0, 0, 6, 6)}, "none",
               <<RawObject(GoodA), RawObject(GoodA), RawObject(GoodA), RawObject(GoodA)>>),
      GeomFile("none", 8, 8, Quadrants(8, 8, 1), "none",
               <<RawArray(<<GoodC, BadA, GoodC>>), RawUndefined, RawUndefined, RawUndefined>>),
      GeomFile("none", 8, 6, {PlacedCode("A", 1, 1, 2, 2), PlacedCode("B", 5, 3, 3, 3)}, "first",
               <<RawArray(<<BadA>>), RawObject(BadC), RawUndefined, RawObject(GoodC)>>),
      GeomFile("none", 1, 1, {}, "none", NoBars),
      GeomFile("url", 6, 6, {PlacedCode("B", 0, 0, 3, 3)}, "none", NoBars) }

InitPair ==
    /\ \E f1 \in PairFiles : \E f2 \in PairFiles \ {f1} :
         file = [s \in ScanIds |-> IF s = 1 THEN f1 ELSE f2]
    /\ st = [s \in ScanIds |-> IdleScan]
    /\ hist = [s \in ScanIds |-> NoHist]
    /\ cand = NoCand
    /\ verdict = <<>>
    /\ drop = NoDrop
    /\ hook = NoHook

\* no other scan is between its call and its return
Alone(s) == \A o \in ScanIds \ {s} : st[o].pc \in {"idle", "done"}

\* the two scans are called in any order and their steps interleave in every way (a
\* step is what runs between two awaits, or a part of it); once both have returned,
\* each file is scanned again with no other scan under way
NextPair ==
    \E s \in ScanIds :
        \/ hist[s].run < 2 /\ ScanStep(s)
        \/ Alone(s) /\ (\A o \in ScanIds : hist[o].run >= 1) /\ Rescan(s)
        \/ hist[s].run = 2 /\ Alone(s) /\ ScanStep(s)

SpecPair == InitPair /\ [][NextPair]_vars

\* ------------------------------------------------------------- scanImageFile
\* the single-result API of src/src/utils/scanner.ts.  A call uses the fields pc,
\* imageData, cfgIdx, outcome and returned of st[s]; returned is the empty sequence
\* for null and a sequence of one ScanResult otherwise.

\* the configurations scanBarcode tries, in order
SingleConfigs ==
    << [patchSize |-> "x-large", halfSample |-> FALSE, multiple |-> FALSE],
       [patchSize |-> "large", halfSample |-> FALSE, multiple |-> FALSE],
       [patchSize |-> "large", halfSample |-> TRUE, multiple |-> FALSE],
       [patchSize |-> "medium", halfSample |-> FALSE, multiple |-> FALSE],
       [patchSize |-> "medium", halfSample |-> TRUE, multiple |-> FALSE],
       [patchSize |-> "small", halfSample |-> FALSE, multiple |-> FALSE] >>

\* the promise of scanImageFile resolves with a result, or with null
Resolve(t, result) == [t EXCEPT !.pc = "done", !.outcome = "resolved", !.returned = result]

\* an exception or a rejected await leaves scanImageFile: its promise rejects
Reject(t) == [t EXCEPT !.pc = "done", !.outcome = "rejected", !.returned = <<>>]

\* what the callback of tryQuaggaDecode resolves with: only an object with a
\* codeResult is looked at
SingleDecode(raw) ==
    IF raw.shape = "object" THEN tryQuaggaDecode(raw.items[1]) ELSE Null

\* the mutant goes on to the barcode decoder whatever jsQR found
AfterScanQRCodeNoReturn(t, out) == [t EXCEPT !.pc = "sDataUrl"]

\* if (qrResult) return qrResult; otherwise scanBarcode(file) is called
AfterScanQRCode(t, out) ==
    IF out # Null THEN Resolve(t, <<ScanResult(out, "qr")>>)
    ELSE [t EXCEPT !.pc = "sDataUrl"]

\* scanImageFile(file) is called
ScanImageFile(s) ==
    /\ st[s].pc = "idle"
    /\ hist[s].run = 0
    /\ st' = [st EXCEPT ![s] = [IdleScan EXCEPT !.pc = "sMaterialize"]]
    /\ hist' = [hist EXCEPT ![s].run = 1,
                            ![s].overlap = \E o \in ScanIds \ {s} :
                                              st[o].pc \notin {"idle", "done"}]
    /\ UNCHANGED <<file, cand, verdict, drop, hook>>

\* await fileToImageData(file): a rejection is not caught by scanImageFile
SingleFileToImageData(s) ==
    /\ st[s].pc = "sMaterialize"
    /\ st' = [st EXCEPT ![s] =
                IF file[s].fault \in {"read", "load", "ctx"}
                THEN Reject(@)
                ELSE [@ EXCEPT !.pc = "sQR",
                               !.imageData = [width |-> file[s].w, height |-> file[s].h]]]
    /\ hist' = [hist EXCEPT ![s].threw =
                   IF file[s].fault \in {"read", "load", "ctx"} THEN file[s].fault ELSE @]
    /\ UNCHANGED <<file, cand, verdict, drop, hook>>

\* scanQRCode(imageData): jsQR on the whole image
SingleScanQRCode(s) ==
    /\ st[s].pc = "sQR"
    /\ \E out \in jsQR(file[s], Region(0, 0, st[s].imageData.width, st[s].imageData.height)) :
         /\ st' = [st EXCEPT ![s] = IF out = Throw THEN Reject(@)
                                    ELSE AfterScanQRCode(@, out)]
         /\ hist' = [hist EXCEPT ![s] = SawQR(@, out, "full")]
    /\ UNCHANGED <<file, cand, verdict, drop, hook>>

\* scanBarcode up to its loop: the file is read into a data URL; a reader error is
\* caught and gives null
SingleFileToDataUrl(s) ==
    /\ st[s].pc = "sDataUrl"
    /\ st' = [st EXCEPT ![s] =
                IF file[s].fault = "url" THEN Resolve(@, <<>>)
                ELSE [@ EXCEPT !.pc = "sConfig", !.cfgIdx = 1]]
    /\ hist' = [hist EXCEPT ![s].bcDone = (file[s].fault = "url")]
    /\ UNCHANGED <<file, cand, verdict, drop, hook>>

\* one pass of the loop over configs: await tryQuaggaDecode(dataUrl, readers, config);
\* the first result ends the loop, and after the last config null is returned
SingleTryQuaggaDecode(s) ==
    /\ st[s].pc = "sConfig"
    /\ \E raw \in Quagga(file[s], st[s].cfgIdx, FALSE) :
         LET t == st[s]
             result == SingleDecode(raw)
         IN /\ st' = [st EXCEPT ![s] =
                        IF raw = RawThrow THEN Reject(t)
                        ELSE IF result # Null
                             THEN Resolve(t, <<ScanResult(result, "barcode")>>)
                             ELSE IF t.cfgIdx < Len(SingleConfigs)
                                  THEN [t EXCEPT !.cfgIdx = @ + 1]
                                  ELSE Resolve(t, <<>>)]
            /\ hist' = [hist EXCEPT ![s] =
                          [SawQuagga(@, t, SingleConfigs[t.cfgIdx], raw) EXCEPT
                              !.bcDone = /\ raw # RawThrow
                                         /\ \/ result # Null
                                            \/ t.cfgIdx = Len(SingleConfigs)]]
    /\ UNCHANGED <<file, cand, verdict, drop, hook>>

\* every step a call of scanImageFile can take
SingleStep(s) ==
    \/ ScanImageFile(s)
    \/ SingleFileToImageData(s)
    \/ SingleScanQRCode(s)
    \/ SingleFileToDataUrl(s)
    \/ SingleTryQuaggaDecode(s)

\* one call of scanImageFile; the primitives answer anything
NextSingle == \E s \in {1} : SingleStep(s)

SpecSingle == Init /\ [][NextSingle]_vars

\* ------------------------------------------------------------- useScanner
\* scan s is awaited by a call of processFile or of handlePaste
InFlight(s) == hook.calls[s] \in {"awaitScan", "awaitImage"}

\* the bookkeeping of a scan begun through the hook
Begun(h, s, call) ==
    [h EXCEPT !.calls[s] = call, !.latest = s,
              !.overlapped = @ \/ \E o \in ScanIds \ {s} : InFlight(o)]

\* setResult(scanResult) by the call that awaited scan s
SetResult(h, s, scanResult) == [h EXCEPT !.result = scanResult, !.resultOf = s]

\* setError(message) by the call that awaited scan s (0: by no scan)
SetError(h, s, message) == [h EXCEPT !.error = message, !.errorOf = s]

\* setResult(null), setError(null)
SetResultNull(h) == [h EXCEPT !.result = <<>>, !.resultOf = 0]
SetErrorNull(h) == [h EXCEPT !.error = "", !.errorOf = 0]

\* err.message of the rejection of scanImageFile, or 'Failed to scan image'
ErrorMessage(f) ==
    IF f.fault = "read" THEN "Failed to read file"
    ELSE IF f.fault = "load" THEN "Failed to load image"
    ELSE IF f.fault = "ctx" THEN "Failed to get canvas context"
    ELSE "Failed to scan image"

\* processFile(file) with a file that is not an image (from the file input, a drop
\* or the clipboard): only the error is set
ProcessNonImage ==
    /\ hook' = SetError(hook, 0, "Please provide an image file (PNG, JPG, GIF, WebP)")
    /\ UNCHANGED <<file, st, hist, cand, verdict, drop>>

\* processFile(file) with the image file[s], called by handleFileChange, handleDrop
\* or handlePaste: the three setters, then scanImageFile(file) up to its first await
ProcessFile(s) ==
    /\ hook.calls[s] = "idle"
    /\ st[s].pc = "idle"
    /\ hook' = Begun(SetResultNull(SetErrorNull([hook EXCEPT !.isScanning = TRUE])),
                     s, "awaitScan")
    /\ st' = [st EXCEPT ![s] = [IdleScan EXCEPT !.pc = "sMaterialize"]]
    /\ hist' = [hist EXCEPT ![s].run = 1]
    /\ UNCHANGED <<file, cand, verdict, drop>>

\* the await of processFile returns or throws: try, catch and finally
ProcessFileSettle(s) ==
    /\ hook.calls[s] = "awaitScan"
    /\ Done(s)
    /\ LET h == IF st[s].outcome = "rejected" THEN SetError(hook, s, ErrorMessage(file[s]))
                ELSE IF st[s].returned # <<>> THEN SetResult(hook, s, st[s].returned)
                ELSE SetError(hook, s, "No QR code found in image")
       IN hook' = [h EXCEPT !.isScanning = FALSE, !.calls[s] = "done"]
    /\ UNCHANGED <<file, st, hist, cand, verdict, drop>>

\* handlePaste with a text/plain item that starts with data:image/ (the picture of
\* file[s] as a data URL): setIsScanning(true), setError(null), and the await of
\* dataUrlToImageData
HandlePasteDataUrl(s) ==
    /\ hook.calls[s] = "idle"
    /\ st[s].pc = "idle"
    /\ hook' = Begun(SetErrorNull([hook EXCEPT !.isScanning = TRUE]), s, "awaitImage")
    /\ UNCHANGED <<file, st, hist, cand, verdict, drop>>

\* the await of handlePaste returns or throws: scanImageData, try, catch and finally
PasteSettle(s) ==
    /\ hook.calls[s] = "awaitImage"
    /\ \E out \in IF file[s].fault \in {"load", "ctx"} THEN {Throw}
                   ELSE jsQR(file[s], Region(0, 0, file[s].w, file[s].h)) :
         LET h == IF out = Throw THEN SetError(hook, s, "Failed to process pasted image")
                  ELSE IF out # Null THEN SetResult(hook, s, <<ScanResult(out, "qr")>>)
                  ELSE SetError(hook, s, "No QR code found in image")
         IN hook' = [h EXCEPT !.isScanning = FALSE, !.calls[s] = "done"]
    /\ UNCHANGED <<file, st, hist, cand, verdict, drop>>

\* clearResult()
ClearResult ==
    /\ hook' = SetErrorNull(SetResultNull(hook))
    /\ UNCHANGED <<file, st, hist, cand, verdict, drop>>

\* the pictures given to the hook: two with a QR code, one with a barcode that the
\* second configuration of scanBarcode reads, an empty one, and a file that does not
\* load as a picture.
\* bars lists Quagga's answers from its second entry on (the first is not used)
HookFiles ==
    { GeomFile("none", 6, 6, {PlacedCode("A", 0, 0, 6, 6)}, "none",
               <<RawUndefined, RawUndefined, RawUndefined, RawUndefined,
                 RawUndefined, RawUndefined, RawUndefined>>),
      GeomFile("none", 6, 6, {PlacedCode("B", 1, 1, 4, 4)}, "none",
               <<RawUndefined, RawUndefined, RawUndefined, RawUndefined,
                 RawUndefined, RawUndefined, RawUndefined>>),
      GeomFile("none", 6, 6, {}, "none",
               <<RawUndefined, RawObject(BadA), RawObject(GoodC), RawUndefined,
                 RawUndefined, RawUndefined, RawUndefined>>),
      GeomFile("none", 6, 6, {}, "none",
               <<RawUndefined, RawUndefined, RawUndefined, RawUndefined,
                 RawUndefined, RawUndefined, RawUndefined>>),
      GeomFile("load", 6, 6, {}, "none",
               <<RawUndefined, RawUndefined, RawUndefined, RawUndefined,
                 RawUndefined, RawUndefined, RawUndefined>>) }

InitHook ==
    /\ file \in [ScanIds -> HookFiles]
    /\ st = [s \in ScanIds |-> IdleScan]
    /\ hist = [s \in ScanIds |-> NoHist]
    /\ cand = NoCand
    /\ verdict = <<>>
    /\ drop = NoDrop
    /\ hook = NoHook

\* the user gives the hook one picture after the other, by file or by paste, at any
\* time; the scans under way proceed whenever they can
NextHook ==
    \/ ProcessNonImage
    \/ ClearResult
    \/ \E s \in ScanIds :
          \/ ProcessFile(s)
          \/ hook.calls[s] = "awaitScan" /\ SingleStep(s)
          \/ ProcessFileSettle(s)
          \/ HandlePasteDataUrl(s)
          \/ PasteSettle(s)

SpecHook == InitHook /\ [][NextHook]_vars

\* ------------------------------------------------------------- App.handleDrop
\* toFoundItems(results) of utils/clipboard
toFoundItems(results) ==
    [i \in 1..Len(results) |->
        [data |-> results[i].data, type |-> results[i].type,
         label |-> IF results[i].type = "qr" THEN "QR Code" ELSE "Barcode"]]

\* buildToast(items) ?? { message: 'No code found in image(s)', type: 'error' }
\* (the message, a summary of items, is left out)
DropToast(items) ==
    IF Len(items) = 0 THEN [type |-> "error", items |-> <<>>]
    ELSE [type |-> "success", items |-> items]

\* the files of file are dropped, all of them images: handleDrop runs up to the loop
\* over imageFiles
HandleDrop ==
    /\ drop.pc = "idle"
    /\ drop' = [drop EXCEPT !.pc = "loop", !.i = 1]
    /\ UNCHANGED <<file, st, hist, cand, verdict, hook>>

\* the loop body calls scanImage(file), which calls scanImageFileMultiple(file), and
\* awaits it
DropScanImage(s) ==
    /\ drop.pc = "loop"
    /\ drop.i = s
    /\ Start(s)

\* the await returns: items.push(...), then the next file, or the toast after the last
DropCollect(s) ==
    /\ drop.pc = "loop"
    /\ drop.i = s
    /\ Done(s)
    /\ LET items == drop.items \o toFoundItems(st[s].returned) IN
       drop' = IF s < Cardinality(ScanIds)
               THEN [drop EXCEPT !.i = s + 1, !.items = items]
               ELSE [drop EXCEPT !.pc = "done", !.items = items, !.toast = DropToast(items)]
    /\ UNCHANGED <<file, st, hist, cand, verdict, hook>>

InitDrop ==
    /\ \E f1 \in PairFiles : \E f2 \in PairFiles \ {f1} :
         file = [s \in ScanIds |-> IF s = 1 THEN f1 ELSE f2]
    /\ st = [s \in ScanIds |-> IdleScan]
    /\ hist = [s \in ScanIds |-> NoHist]
    /\ cand = NoCand
    /\ verdict = <<>>
    /\ drop = NoDrop
    /\ hook = NoHook

\* one drop of two image files; the steps of the scans it starts run whenever they can
NextDrop ==
    \/ HandleDrop
    \/ \E s \in ScanIds :
          \/ DropScanImage(s)
          \/ st[s].pc # "idle" /\ ScanStep(s)
          \/ DropCollect(s)

SpecDrop == InitDrop /\ [][NextDrop]_vars

\* ------------------------------------------------------------- the filter alone
FilterCands ==
    {Candidate(c, TRUE, q) : c \in BarCodes, q \in SeqsUpTo(ErrVals \cup {Undefined}, MaxSym)}
    \cup {Candidate(c, FALSE, <<>>) : c \in BarCodes}

InitFilter ==
    /\ cand \in FilterCands
    /\ verdict = <<>>
    /\ file = [s \in ScanIds |-> NoFile]
    /\ st = [s \in ScanIds |-> IdleScan]
    /\ hist = [s \in ScanIds |-> NoHist]
    /\ drop = NoDrop
    /\ hook = NoHook

\* Quagga hands cand to the callback of quaggaDecode, to the callback of
\* tryQuaggaDecode (scanner.ts) and to the two branches of the callback of
\* tryQuaggaDecodeMultiple
ApplyFilter ==
    /\ verdict = <<>>
    /\ verdict' = << processQuaggaResult(cand), tryQuaggaDecode(cand),
                     tryQuaggaDecodeMultipleItem(cand),
                     tryQuaggaDecodeMultipleObject(cand) >>
    /\ UNCHANGED <<file, st, hist, cand, drop, hook>>

NextFilter == ApplyFilter

SpecFilter == InitFilter /\ [][NextFilter]_vars

\* ============================================================= properties
Count(q, e) == Cardinality({i \in 1..Len(q) : q[i] = e})

\* C1: the list a scan returns holds no two entries with the same (data, type),
\* whatever the primitives answered.
C1_NoDuplicates ==
    \A s \in ScanIds :
        Done(s) =>
            \A i, j \in 1..Len(st[s].returned) :
                i < j => ~ ( /\ st[s].returned[i].data = st[s].returned[j].data
                             /\ st[s].returned[i].type = st[s].returned[j].type )

\* a scan returned at least two entries after a primitive repeated a payload
C1_Witness ==
    Done(1) /\ hist[1].repeated /\ Len(st[1].returned) >= 2

\* C2: a payload decoded by the QR channel and accepted by the barcode channel in
\* the same scan is returned twice, once with type qr and once with type barcode.
C2_KeyedOnPayloadAndKind ==
    \A s \in ScanIds : \A p \in Payloads \cup BarCodes :
        ( /\ Done(s)
          /\ ScanResult(p, "qr") \in Range(st[s].qrResults)
          /\ ScanResult(p, "barcode") \in Range(st[s].bcResults) )
        => /\ ScanResult(p, "qr") \in Range(st[s].returned)
           /\ ScanResult(p, "barcode") \in Range(st[s].returned)

\* C3: when the file cannot be read or the image cannot be loaded the scan rejects
\* and never resolves with a list.
C3_UnreadableRejects ==
    \A s \in ScanIds :
        (Done(s) /\ file[s].fault \in {"read", "load"}) => st[s].outcome = "rejected"

\* C4: a decoder exception in one tile attempt or one barcode attempt counts as no
\* result: the payloads the other attempts found are in the returned list, after
\* a tile exception the barcode channel still runs, and a scan whose last barcode
\* attempt raised an exception has tried every configuration.
C4_ThrowIsNoResult ==
    \A s \in ScanIds :
        (Done(s) /\ file[s].fault = "none" /\ hist[s].threw \in {"tile", "quagga"}) =>
            /\ \A p \in hist[s].qrFound : ScanResult(p, "qr") \in Range(st[s].returned)
            /\ hist[s].bcLog # <<>>
            /\ hist[s].lastRaw = RawThrow =>
                   hist[s].bcLog[Len(hist[s].bcLog)] = Configs[Len(Configs)]

\* C5: a candidate with a code string is accepted by the filter exactly when it
\* reports no per-symbol error or the mean of its errors is at most 0.25; a rejected
\* candidate yields null.  Every copy of the filter (processQuaggaResult, the
\* callback of tryQuaggaDecode, the two branches of tryQuaggaDecodeMultiple) decides
\* alike.
C5_ConfidenceFilter ==
    (verdict # <<>> /\ cand.code # "") =>
        \A k \in 1..Len(verdict) :
            /\ verdict[k] \in {cand.code, Null}
            /\ (verdict[k] = cand.code) <=>
                   ( \/ Reported(cand) = <<>>
                     \/ 4 * SumSeq(Reported(cand)) <= 100 * Len(Reported(cand)) )

\* a candidate whose two errors, 0 and 0.5, have a mean of exactly 0.25 was accepted
C5_Witness ==
    /\ verdict # <<>>
    /\ cand = Candidate("A", TRUE, <<0, 50>>)
    /\ verdict[1] = "A"

\* C6: every barcode entry comes from a candidate of Quagga's answer in the attempt
\* that added it, and that candidate passes the confidence filter; the returned
\* barcode entries are those entries.
C6_BarcodesPassedFilter ==
    /\ [][ \A s \in ScanIds : \A e \in Range(st'[s].bcResults) :
              \/ e \in Range(st[s].bcResults)
              \/ \E c \in Range(hist'[s].lastRaw.items) :
                    c.code = e.data /\ PassesFilter(c) ]_vars
    /\ [](\A s \in ScanIds : \A e \in Range(st[s].returned) :
              e.type = "barcode" => e \in Range(st[s].bcResults))

\* Quagga reported code A with an average error of 0.9 next to an acceptable code C:
\* the scan returned C and not A
C6_Witness ==
    /\ Done(1)
    /\ Candidate("A", TRUE, <<90>>) \in Range(hist[1].lastRaw.items)
    /\ ScanResult("C", "barcode") \in Range(st[1].returned)
    /\ ScanResult("A", "barcode") \notin Range(st[1].returned)

\* C7: every payload jsQR returned during a scan, from the full frame or from a
\* tile, is in the returned list with type qr.
C7_QRNeverFiltered ==
    \A s \in ScanIds :
        Done(s) => \A p \in hist[s].qrFound : ScanResult(p, "qr") \in Range(st[s].returned)

\* C8: the scan of a readable picture of any size in which neither primitive finds
\* a code goes on until it resolves, and resolves with the empty list.
C8_BlankResolvesEmpty ==
    \A s \in {1} :
        ( /\ hist[s].run >= 1
          /\ file[s].prim = "geom" /\ file[s].fault = "none"
          /\ file[s].codes = {} /\ file[s].bars = NoBars )
        => IF Done(s)
           THEN st[s].outcome = "resolved" /\ st[s].returned = <<>>
           ELSE ENABLED <<ScanStep(s)>>_vars

\* C9: the second scan of a picture returns the same multiset of (data, type) as
\* the first.
C9_Idempotent ==
    \A s \in ScanIds :
        (Done(s) /\ hist[s].run = 2) =>
            \A e \in Range(hist[s].first) \cup Range(st[s].returned) :
                Count(hist[s].first, e) = Count(st[s].returned, e)

\* the second scan of a picture returned a QR entry and a barcode entry
C9_Witness ==
    /\ Done(1) /\ hist[1].run = 2
    /\ \E e, b \in Range(st[1].returned) : e.type = "qr" /\ b.type = "barcode"

\* C10: the scan of a loadable picture with four codes, one in each quadrant,
\* returns the four payloads with type qr.
C10_FourQuadrantRecall ==
    \A s \in ScanIds :
        ( /\ Done(s) /\ file[s].prim = "geom" /\ file[s].fault # "load"
          /\ \E inset \in {0, 1} : file[s].codes = Quadrants(file[s].w, file[s].h, inset) )
        => \A q \in {"Q1", "Q2", "Q3", "Q4"} :
               ScanResult(q, "qr") \in Range(st[s].returned)

\* the place of entry e in a list without repetitions
PlaceOf(q, e) == CHOOSE i \in 1..Len(q) : q[i] = e

\* window position <<g1, y1, x1>> is not before <<g2, y2, x2>> in scan order: grids
\* in the order of GridSizes, rows top to bottom, within a row left to right
NotBefore(g1, y1, x1, g2, y2, x2) ==
    \/ g1 > g2
    \/ g1 = g2 /\ y1 > y2
    \/ g1 = g2 /\ y1 = y2 /\ x1 >= x2

\* C11: the returned list keeps the entries in the order the primitives first gave
\* them (the full frame, then the tiles, then the barcode attempts), every qr entry
\* stands before every barcode entry, and the tiles are tried grid 2 before grid 3,
\* rows top to bottom, within a row left to right (a window position not tried
\* before is never before the position just tried).
C11_FirstSeenOrder ==
    /\ [](\A s \in ScanIds : Done(s) =>
            LET out == st[s].returned IN
            /\ \A i \in 1..Len(out) : out[i] \in Range(hist[s].order)
            /\ \A i, j \in 1..Len(out) :
                  i < j => /\ PlaceOf(hist[s].order, out[i]) < PlaceOf(hist[s].order, out[j])
                           /\ ~(out[i].type = "barcode" /\ out[j].type = "qr"))
    /\ [][ \A s \in ScanIds :
              ( /\ st[s].pc = "qrTile" /\ st'[s].pc = "qrTile"
                /\ ~ \E tile \in hist'[s].tiles :
                        /\ tile.g = GridSizes[st'[s].gridIdx]
                        /\ tile.r.x = st'[s].x /\ tile.r.y = st'[s].y ) =>
                  /\ GridSizes[1] = 2 /\ GridSizes[2] = 3
                  /\ NotBefore(st'[s].gridIdx, st'[s].y, st'[s].x,
                               st[s].gridIdx, st[s].y, st[s].x) ]_vars

\* a scan returned two QR payloads, the second one first decoded in a tile, and then
\* a barcode
C11_Witness ==
    /\ Done(1) /\ Len(st[1].returned) = 3
    /\ hist[1].tiles # {}
    /\ st[1].returned[1].type = "qr" /\ st[1].returned[2].type = "qr"
    /\ st[1].returned[3].type = "barcode"
    /\ st[1].returned = hist[1].order

\* C12: of two scans under way at the same time on different files, a step of one
\* changes nothing of the other, and each returns exactly the list the scan of its
\* file returns with no other scan under way.
C12_ScansIsolated ==
    /\ [](\A s \in ScanIds :
            (Done(s) /\ hist[s].run = 2) => st[s].returned = hist[s].first)
    /\ [][ \A s \in ScanIds : \A o \in ScanIds \ {s} :
              st'[s] # st[s] => (st'[o] = st[o] /\ hist'[o] = hist[o]) ]_vars

\* the second scan began while the first was under way, both returned entries, and
\* the second file has been scanned again alone
C12_Witness ==
    /\ hist[2].overlap /\ hist[2].run = 2 /\ Done(2)
    /\ st[2].returned # <<>>
    /\ hist[1].run >= 1 /\ Done(1) /\ st[1].returned # <<>>

\* C13: the scan of a 300 x 300 picture holding one QR code with payload
\* https://example.com, decoded in the full frame and in every tile that shows the
\* whole code, returns exactly one entry, {data: "https://example.com", type: "qr"}.
C13_ScenarioB ==
    \A s \in ScanIds :
        ( /\ Done(s)
          /\ file[s].w = 300 /\ file[s].h = 300
          /\ \E c \in file[s].codes : file[s].codes = {c} /\ c.data = "https://example.com" )
        => st[s].returned = <<[data |-> "https://example.com", type |-> "qr"]>>

\* the code was decoded in the full frame and again in a tile, and the scan returned
C13_Witness ==
    /\ Done(1) /\ hist[1].run = 1
    /\ file[1].w = 300 /\ file[1].codes \in {{c} : c \in ScenarioPlaces}
    /\ hist[1].repeated
    /\ hist[1].qrAttempts > 1
    /\ Len(st[1].returned) = 1

\* C14: the single-result fallback is attempted exactly when the multi-result
\* attempt gave no acceptable candidate (none at all, or only candidates the filter
\* rejects): a scan with a fallback attempt had none accepted in the multi-result
\* attempt, and a barcode channel that has finished without one had at least one.
C14_FallbackIffNoneAccepted ==
    \A s \in ScanIds :
        LET log == hist[s].bcLog
            acc == hist[s].accepted
        IN  /\ Len(log) >= 2 => acc[1] < 1
            /\ (Done(s) /\ Len(log) = 1) => acc[1] >= 1

\* C15: the fallback attempts are (x-large, halfSample false), (large, halfSample
\* false), (medium, halfSample true), in this order and each with multiple false;
\* an attempt follows only attempts that gave no acceptable candidate, and a barcode
\* channel that has finished with no acceptable candidate has made all three.
C15_FallbackOrder ==
    \A s \in ScanIds :
        LET log == hist[s].bcLog
            acc == hist[s].accepted
            expected == << [patchSize |-> "x-large", halfSample |-> FALSE, multiple |-> FALSE],
                           [patchSize |-> "large", halfSample |-> FALSE, multiple |-> FALSE],
                           [patchSize |-> "medium", halfSample |-> TRUE, multiple |-> FALSE] >>
        IN  /\ Len(log) <= 1 + Len(expected)
            /\ \A i \in 2..Len(log) : log[i] = expected[i - 1]
            /\ \A i \in 2..Len(log) : \A j \in 2..(i - 1) : acc[j] < 1
            /\ (Done(s) /\ Len(log) >= 2 /\ \A i \in 2..Len(log) : acc[i] < 1)
                  => Len(log) = 1 + Len(expected)

\* materialization and the QR channel of scan s have completed
QRComplete(s) ==
    \/ st[s].pc \in {"dataUrl", "bcMulti", "bcSingle"}
    \/ /\ Done(s)
       /\ file[s].fault \notin {"read", "load", "ctx"}
       /\ hist[s].threw \notin {"full", "tile", "getImageData"}

\* the Quagga calls of scan s so far begin with the multi-result attempt
\* {patchSize: large, halfSample: false, multiple: true} and hold no other
\* multi-result attempt
MultiFirstAndOnce(s) ==
    LET log == hist[s].bcLog IN
    /\ log # <<>> =>
          log[1] = [patchSize |-> "large", halfSample |-> FALSE, multiple |-> TRUE]
    /\ \A i \in 2..Len(log) : ~ log[i].multiple

TileSize(dim, g) == dim \div g
Stride(dim, g) == TileSize(dim, g) \div 2

\* the window positions per axis, floor((dim - tile) / stride) + 1
PositionsPerAxis(dim, g) == ((dim - TileSize(dim, g)) \div Stride(dim, g)) + 1

\* C17: every tile handed to jsQR is floor(W/g) wide and floor(H/g) high and stands
\* at a multiple of the stride floor(tile/2) on each axis; no tile is handed to jsQR
\* a second time; and a scan whose QR channel ran through has made
\* 1 + sum over g of posX(g) * posY(g) calls of jsQR, posX(g) * posY(g) of them on
\* the tiles of grid g, with pos = floor((dimension - tile) / stride) + 1.
C17_TileGeometry ==
    \A s \in ScanIds :
        LET W == file[s].w
            H == file[s].h
        IN  /\ \A tile \in hist[s].tiles :
                  /\ tile.r.w = TileSize(W, tile.g) /\ tile.r.h = TileSize(H, tile.g)
                  /\ Stride(W, tile.g) >= 1 => tile.r.x % Stride(W, tile.g) = 0
                  /\ Stride(H, tile.g) >= 1 => tile.r.y % Stride(H, tile.g) = 0
            /\ hist[s].retried = 0
            /\ ( /\ Done(s) /\ QRComplete(s) /\ file[s].fault \in {"none", "url"}
                 /\ \A g \in {2, 3} : Stride(W, g) >= 1 /\ Stride(H, g) >= 1 )
                 => /\ \A g \in {2, 3} :
                          Cardinality({tile \in hist[s].tiles : tile.g = g})
                              = PositionsPerAxis(W, g) * PositionsPerAxis(H, g)
                    /\ hist[s].qrAttempts
                          = 1 + PositionsPerAxis(W, 2) * PositionsPerAxis(H, 2)
                              + PositionsPerAxis(W, 3) * PositionsPerAxis(H, 3)

\* the rectangles of at least one pixel inside a W x H image that are narrower than
\* tw and lower than th
SmallRects(W, H, tw, th) ==
    { r \in { Region(x, y, w, h) : x \in 0..(W - 1), y \in 0..(H - 1),
                                   w \in 1..(tw - 1), h \in 1..(th - 1) } :
          r.x + r.w <= W /\ r.y + r.h <= H }

\* C18: once the QR channel has run through, for each grid factor every rectangle
\* inside the image that is narrower and lower than the tile lies wholly inside
\* one of the tiles handed to jsQR.
C18_SmallRectContained ==
    \A s \in ScanIds :
        (Done(s) /\ QRComplete(s) /\ file[s].fault = "none") =>
            \A g \in {2, 3} :
                \A rect \in SmallRects(file[s].w, file[s].h,
                                        file[s].w \div g, file[s].h \div g) :
                    \E tile \in hist[s].tiles : tile.g = g /\ Inside(rect, tile.r)

\* C19: when every primitive call returns, each pass of the tile loops moves the
\* window on by a stride of at least 1 on each axis, no tile is tried twice, and
\* the scan goes on until it resolves.
C19_Terminates ==
    \A s \in ScanIds :
        (hist[s].run >= 1 /\ hist[s].threw \notin {"full", "tile", "quagga"}) =>
            /\ \A tile \in hist[s].tiles :
                  (tile.r.w \div 2) >= 1 /\ (tile.r.h \div 2) >= 1
            /\ hist[s].retried = 0
            /\ IF Done(s) THEN st[s].outcome = "resolved"
               ELSE ENABLED <<ScanStep(s)>>_vars

\* C20: on an image narrower or lower than a grid factor (a tile width or height
\* of 0) no tile of that factor is handed to jsQR, and when no primitive call
\* throws the scan returns what the full frame gave and the barcode channel runs.
C20_SmallImageSkipsGrid ==
    \A s \in ScanIds :
        LET tooSmall == {g \in {2, 3} : file[s].w < g \/ file[s].h < g} IN
        /\ \A tile \in hist[s].tiles : tile.g \notin tooSmall
        /\ ( /\ Done(s) /\ tooSmall # {}
             /\ file[s].fault = "none"
             /\ hist[s].threw \notin {"full", "tile", "quagga"} )
             => /\ \A p \in hist[s].qrFound : ScanResult(p, "qr") \in Range(st[s].returned)
                /\ hist[s].bcLog # <<>>
                /\ \A g \in {2, 3} \ tooSmall : \E tile \in hist[s].tiles : tile.g = g

\* C21: once the QR channel has run through, for each grid factor the last window
\* reaches the right and the bottom edge (offset + tile size = image dimension),
\* and every pixel column and every pixel row lies in a tile of that factor.
C21_LastWindowReachesEdge ==
    \A s \in ScanIds :
        (Done(s) /\ QRComplete(s) /\ file[s].fault \in {"none", "url"}) =>
            \A g \in {2, 3} :
                LET tiles == {tile \in hist[s].tiles : tile.g = g} IN
                /\ \E tile \in tiles : tile.r.x + tile.r.w = file[s].w
                /\ \E tile \in tiles : tile.r.y + tile.r.h = file[s].h
                /\ \A col \in 0..(file[s].w - 1) :
                      \E tile \in tiles : tile.r.x <= col /\ col < tile.r.x + tile.r.w
                /\ \A row \in 0..(file[s].h - 1) :
                      \E tile \in tiles : tile.r.y <= row /\ row < tile.r.y + tile.r.h

\* C22: every tile handed to jsQR lies inside the image and is floor(W/g) wide and
\* floor(H/g) high, g being its grid factor.
C22_TilesInsideImage ==
    \A s \in ScanIds : \A tile \in hist[s].tiles :
        /\ 0 <= tile.r.x /\ tile.r.x + tile.r.w <= file[s].w
        /\ 0 <= tile.r.y /\ tile.r.y + tile.r.h <= file[s].h
        /\ tile.r.w = file[s].w \div tile.g
        /\ tile.r.h = file[s].h \div tile.g

\* both grids were tried to the end, with a tile in the bottom right corner
C22_Witness ==
    /\ Done(1) /\ QRComplete(1)
    /\ \A g \in {2, 3} : \E tile \in hist[1].tiles :
          /\ tile.g = g
          /\ tile.r.x + tile.r.w = file[1].w /\ tile.r.y + tile.r.h = file[1].h
          /\ tile.r.x > 0 /\ tile.r.y > 0

\* C23: the steps of a scan occur in a fixed order: no decode attempt before the
\* image is materialized, no tile attempt before the full-frame attempt, no barcode
\* attempt while the QR channel is running, and no list returned before the barcode
\* channel has finished.
C23_FixedOrder ==
    \A s \in ScanIds :
        /\ st[s].pc \in {"idle", "materialize"} =>
              hist[s].qrAttempts = 0 /\ hist[s].bcLog = <<>>
        /\ st[s].pc = "qrFull" => hist[s].tiles = {} /\ hist[s].qrAttempts = 0
        /\ hist[s].tiles # {} =>
              hist[s].qrAttempts = 1 + Cardinality(hist[s].tiles) + hist[s].retried
        /\ st[s].pc \in {"qrFull", "qrTile"} => hist[s].bcLog = <<>>
        /\ Done(s) => hist[s].bcDone

\* C24: every canvas, buffer or data URL an attempt works on was created by that
\* attempt, and none is worked on again by the attempt after it.
C24_NoReuseAcrossAttempts ==
    \A s \in ScanIds :
        /\ \A i \in hist[s].used : i.by = hist[s].qrAttempts + Len(hist[s].bcLog)
        /\ ~ hist[s].reused

\* C26: when fileToDataUrl fails, Quagga is never called and the scan resolves with
\* exactly the QR results found, in the order they were found.
C26_RereadFailureKeepsQR ==
    \A s \in ScanIds :
        (Done(s) /\ file[s].fault = "url" /\ hist[s].bcDone) =>
            /\ st[s].outcome = "resolved"
            /\ hist[s].bcLog = <<>>
            /\ st[s].returned = hist[s].order
            /\ \A e \in Range(st[s].returned) : e.type = "qr"
            /\ {e.data : e \in Range(st[s].returned)} = hist[s].qrFound

\* the re-read failed after jsQR had found two payloads
C26_Witness ==
    /\ Done(1) /\ file[1].fault = "url" /\ hist[1].bcDone
    /\ Len(st[1].returned) = 2
    /\ hist[1].threw = "none"

\* C25: the scans of files dropped together run concurrently: while the scan of one
\* dropped file is under way, the scan of a file not yet scanned can start.
C25_DroppedScansOverlap ==
    \A s \in ScanIds :
        ( /\ drop.pc = "loop"
          /\ st[s].pc = "idle"
          /\ \E o \in ScanIds \ {s} : st[o].pc \notin {"idle", "done"} ) =>
            ENABLED <<DropScanImage(s)>>_vars

\* C27: scanImageFile tries jsQR first; when jsQR finds a code the call resolves
\* with that QR result and Quagga is never called; a barcode result is returned only
\* if jsQR found nothing, and null only if neither decoder found anything.
C27_SingleResultOrder ==
    \A s \in ScanIds :
        /\ hist[s].bcLog # <<>> => hist[s].qrAttempts = 1 /\ hist[s].qrFound = {}
        /\ hist[s].qrFound # {} =>
              /\ hist[s].bcLog = <<>>
              /\ Done(s)
              /\ st[s].outcome = "resolved"
              /\ Len(st[s].returned) = 1
              /\ st[s].returned[1].type = "qr"
              /\ st[s].returned[1].data \in hist[s].qrFound
        /\ (Done(s) /\ Len(st[s].returned) = 1 /\ hist[s].qrFound = {}) =>
              /\ st[s].returned[1].type = "barcode"
              /\ hist[s].qrAttempts = 1
              /\ hist[s].accepted[Len(hist[s].accepted)] = 1
        /\ (Done(s) /\ st[s].outcome = "resolved" /\ st[s].returned = <<>>) =>
              /\ hist[s].qrAttempts = 1 /\ hist[s].qrFound = {}
              /\ \A i \in 1..Len(hist[s].accepted) : hist[s].accepted[i] = 0

\* jsQR found a payload in a readable file and the call has returned
C27_Witness ==
    /\ Done(1) /\ file[1].fault = "none"
    /\ hist[1].qrFound = {"A"}
    /\ st[1].returned = <<ScanResult("A", "qr")>>

\* C28: isScanning is true exactly while at least one scan begun through the hook
\* is under way.
C28_IsScanningWhileInFlight ==
    hook.isScanning = (\E s \in ScanIds : InFlight(s))

\* C29: when two scans overlapped and both have finished, the result and the error
\* the hook holds were stored by the scan begun last.
C29_LastStartedWins ==
    (hook.overlapped /\ \A s \in ScanIds : hook.calls[s] = "done") =>
        /\ hook.resultOf \in {0, hook.latest}
        /\ hook.errorOf \in {0, hook.latest}

\* C30: result and error are never both non-null.
C30_ResultXorError ==
    ~ (hook.result # <<>> /\ hook.error # "")

====
